---- MODULE Spec2Model ----
(***************************************************************************)
(* Navigation / permission core of the ontology marketplace frontend:     *)
(*   - UserService (src/src/services/userService.ts): the time-bounded    *)
(*     permission cache fed by GET /get_user;                             *)
(*   - App (src/src/App.tsx): the hash router (parseHash, the mount       *)
(*     effect, the identity callback, hashchange, handleViewChange,       *)
(*     handleLogin, handleLogout).                                        *)
(* Strings are sequences of atoms: an atom is a separator ("#", "/", "?", *)
(* "id=", " ") or a word that contains no separator.  Lists of ids are    *)
(* sets: the code only ever turns them into Sets.                         *)
(***************************************************************************)
EXTENDS Integers, Sequences, FiniteSets, TLC

(* null and undefined where a string is expected: tuples no string equals. *)
NullStr == <<"<null>">>
UndefinedStr == <<"<undefined>">>
NoUser == "null"

(* ----------------------------- bounds ---------------------------------- *)
MaxRequests == 3     \* /get_user requests issued in one behaviour
MaxTicks == 2        \* clock advances in one behaviour
StartNow == 1000000  \* Date.now() when the module is loaded (ms)
TickMs == 300000     \* one clock advance (ms)
MaxFragLen == 4      \* pieces in a fragment the decoder is applied to

(* Ontology ids the authority service may list. *)
ServerIds == {<<"a">>, <<"b">>}
(* Ids a view may ask about. *)
QueryIds == ServerIds \cup {<<>>, <<" ">>, <<" ", "a">>, NullStr}

CACHE_TTL_MS == 5 * 60 * 1000

VARIABLES
  userAccount,    \* UserAccount | null
  editableIds,    \* Set<string>
  deletableIds,   \* Set<string>
  lastFetched,    \* epoch ms of the last successful fetch, 0 if none
  fetchPromise,   \* 0 (null) or the id of the promise refresh() hands out
  fetches,        \* promise id -> the refresh IIFE started for it
  lastReturned,   \* the promise the latest refresh() call returned, 0 if none
  lastResult,     \* the value the latest settled promise resolved with
  previousIds,    \* ids editable or deletable just before the snapshot was
                  \* last replaced or wiped
  now,            \* Date.now()
  answer,         \* what the latest canEdit / canDelete call returned
  lastOp          \* the operation that produced this state

VARIABLES
  mounted,             \* the mount effect has run
  currentView,
  selectedOntologyId,
  currentUser,
  isLoading,
  locationHash,        \* window.location.hash
  hashEventPending,    \* a hashchange event is queued
  parsedHash,          \* the parse captured by the mount effect's closure
  authUser,            \* authService.currentUser
  loginPending,        \* LoginView is awaiting authService.signIn
  handlersRun          \* kinds of user-driven handler run since mount

snapshotVars == <<userAccount, editableIds, deletableIds, lastFetched, previousIds>>
flightVars == <<fetchPromise, fetches, lastReturned>>
(* The browser's named windows, and OntologyDetailsView.                   *)
VARIABLES
  windows,         \* the named windows open: [name, url]
  lastOpened,      \* the last window.open call: its arguments, the card clicked
  rendered,        \* OntologyDetailsView is mounted
  propOntologyId,  \* its ontologyId prop
  ontology,        \* its ontology state: the record loaded, or null
  canEditView,     \* its canEdit state
  checks,          \* request id -> the /can_edit_ontology request made
  loads,           \* call id -> the searchOntologies call of fetchOntology
  completed        \* entity id -> outcome of the last completed check

cacheVars == <<snapshotVars, flightVars, lastResult, now, answer>>
routerVars == <<mounted, currentView, selectedOntologyId, currentUser, isLoading,
                locationHash, hashEventPending, parsedHash, authUser, loginPending,
                handlersRun>>
windowVars == <<windows, lastOpened>>
detailsVars == <<rendered, propOntologyId, ontology, canEditView, checks, loads, completed>>
viewVars == <<windowVars, detailsVars>>
vars == <<cacheVars, routerVars, viewVars, lastOp>>

(* ------------------------- UserService --------------------------------- *)
PromiseIds == 1..MaxRequests

(* The raw body of a /get_user response: each permission list is an array  *)
(* of ids or something that is not an array.                               *)
NotArray == [isArray |-> FALSE, items |-> {}]
PermField == {[isArray |-> TRUE, items |-> S] : S \in SUBSET ServerIds} \cup {NotArray}
NoEmail == ""
Responses ==
  [email : {NoEmail}, can_edit_ontologies : PermField, can_delete_ontologies : PermField]

(* The users that sign in one after the other, and what the authority     *)
(* answers to a request made with a user's token: that user's account.     *)
Identities == {"u1", "u2"}
AuthorityResponses(user) ==
  [email : {user},
   can_edit_ontologies : {[isArray |-> TRUE, items |-> {}],
                          [isArray |-> TRUE, items |-> {<<"a">>}]},
   can_delete_ontologies : {NotArray}]

(* Responses that grant no deletion.                                       *)
EditOnlyResponses == {response \in Responses : response.can_delete_ontologies = NotArray}

(* Responses whose lists may hold the empty string.                        *)
BlankServerIds == {<<>>, <<"a">>}
BlankPermField == {[isArray |-> TRUE, items |-> S] : S \in SUBSET BlankServerIds}
                    \cup {NotArray}
BlankResponses == [email : {NoEmail}, can_edit_ontologies : BlankPermField,
                   can_delete_ontologies : BlankPermField]

(* UserAccount | null *)
NullAccount ==
  [isNull |-> TRUE, email |-> NoEmail, can_edit_ontologies |-> {},
   can_delete_ontologies |-> {}]

(* fetchUserAccount, success path: the normalisation of the response.      *)
NormalizeAccount(response) ==
  [isNull |-> FALSE,
   email |-> response.email,
   can_edit_ontologies |->
      IF response.can_edit_ontologies.isArray
        THEN response.can_edit_ontologies.items ELSE {},
   can_delete_ontologies |->
      IF response.can_delete_ontologies.isArray
        THEN response.can_delete_ontologies.items ELSE {}]

IsSpace(c) == c = " "

RECURSIVE TrimStart(_)
TrimStart(s) ==
  IF s # <<>> /\ IsSpace(Head(s)) THEN TrimStart(Tail(s)) ELSE s

RECURSIVE TrimEnd(_)
TrimEnd(s) ==
  IF s # <<>> /\ IsSpace(s[Len(s)]) THEN TrimEnd(SubSeq(s, 1, Len(s) - 1)) ELSE s

(* String.prototype.trim *)
Trim(s) == TrimEnd(TrimStart(s))

(* !s : null, undefined and the empty string are falsy.                    *)
Falsy(s) == s = NullStr \/ s = UndefinedStr \/ s = <<>>

canEdit(ontologyId) ==
  IF Falsy(ontologyId) THEN FALSE ELSE Trim(ontologyId) \in editableIds

canDelete(ontologyId) ==
  IF Falsy(ontologyId) THEN FALSE ELSE Trim(ontologyId) \in deletableIds

getUserAccount == userAccount

(* A plausible slip: the cache counts as stale at exactly the TTL.         *)
isStaleAtTtl == now - lastFetched >= CACHE_TTL_MS

isStale == now - lastFetched > CACHE_TTL_MS

Pending(p) == fetches[p].status = "pending"
PendingFetches == {p \in PromiseIds : Pending(p)}
(* GET /get_user requests issued so far.                                   *)
Requests == Cardinality({p \in PromiseIds : fetches[p].status # "none"})

NoFetch == [status |-> "none", abandoned |-> FALSE, failed |-> FALSE, user |-> NoUser]

InitCache ==
  /\ userAccount = NullAccount
  /\ editableIds = {}
  /\ deletableIds = {}
  /\ lastFetched = 0
  /\ fetchPromise = 0
  /\ fetches = [p \in PromiseIds |-> NoFetch]
  /\ lastReturned = 0
  /\ lastResult = NullAccount
  /\ previousIds = {}
  /\ now = StartNow
  /\ answer = FALSE
  /\ lastOp = "init"

(* refresh(): join the promise in flight, or start the IIFE, which calls   *)
(* fetchUserAccount and so issues GET /get_user before its first await.    *)
(* The request carries the token of the user signed in when it is made.    *)
RefreshCallAs(user) ==
  IF fetchPromise # 0
    THEN /\ lastReturned' = fetchPromise
         /\ UNCHANGED <<fetchPromise, fetches>>
    ELSE /\ Requests < MaxRequests
         /\ LET p == Requests + 1 IN
              /\ fetches' = [fetches EXCEPT ![p].status = "pending", ![p].user = user]
              /\ fetchPromise' = p
              /\ lastReturned' = p

RefreshCall == RefreshCallAs(authUser)

(* refresh() called by a view (UserProfileSettings, the details view).     *)
Refresh ==
  /\ RefreshCall
  /\ lastOp' = IF fetchPromise # 0 THEN "refresh-joined" ELSE "refresh-issued"
  /\ UNCHANGED viewVars
  /\ UNCHANGED <<snapshotVars, lastResult, now, answer, routerVars>>

(* A plausible slip: the new ids are added to the old ones.                *)
FetchSucceedMerging(p, response) ==
  /\ Pending(p)
  /\ LET account == NormalizeAccount(response) IN
       /\ userAccount' = account
       /\ editableIds' = editableIds \cup account.can_edit_ontologies
       /\ deletableIds' = deletableIds \cup account.can_delete_ontologies
       /\ lastFetched' = now
       /\ lastResult' = account
  /\ previousIds' = editableIds \cup deletableIds
  /\ fetches' = [fetches EXCEPT ![p].status = "settled"]
  /\ fetchPromise' = 0
  /\ lastOp' = "fetch-ok"
  /\ UNCHANGED viewVars
  /\ UNCHANGED <<lastReturned, now, answer, routerVars>>

(* The request of promise p resolves with a response: the IIFE commits the *)
(* account, both sets and the timestamp; finally resets fetchPromise.      *)
FetchSucceed(p, response) ==
  /\ Pending(p)
  /\ LET account == NormalizeAccount(response) IN
       /\ userAccount' = account
       /\ editableIds' = account.can_edit_ontologies
       /\ deletableIds' = account.can_delete_ontologies
       /\ lastFetched' = now
       /\ lastResult' = account
  /\ previousIds' = editableIds \cup deletableIds
  /\ fetches' = [fetches EXCEPT ![p].status = "settled"]
  /\ fetchPromise' = 0
  /\ lastOp' = "fetch-ok"
  /\ UNCHANGED viewVars
  /\ UNCHANGED <<lastReturned, now, answer, routerVars>>

(* A plausible slip: a failure wipes the cache.                            *)
FetchFailWipes(p) ==
  /\ Pending(p)
  /\ lastResult' = NullAccount
  /\ userAccount' = NullAccount
  /\ editableIds' = {}
  /\ deletableIds' = {}
  /\ fetches' = [fetches EXCEPT ![p].status = "settled", ![p].failed = TRUE]
  /\ fetchPromise' = 0
  /\ lastOp' = "fetch-failed"
  /\ UNCHANGED viewVars
  /\ UNCHANGED <<lastFetched, previousIds, lastReturned, now, answer, routerVars>>

(* A plausible slip: fetchUserAccount lets the error through, so the       *)
(* promise rejects.                                                        *)
FetchFailRejects(p) ==
  /\ Pending(p)
  /\ fetches' = [fetches EXCEPT ![p].status = "rejected", ![p].failed = TRUE]
  /\ fetchPromise' = 0
  /\ lastOp' = "fetch-failed"
  /\ UNCHANGED viewVars
  /\ UNCHANGED <<snapshotVars, lastReturned, lastResult, now, answer, routerVars>>

(* A plausible slip: the promise is forgotten only after a success.        *)
FetchFailKeepsPromise(p) ==
  /\ Pending(p)
  /\ lastResult' = userAccount
  /\ fetches' = [fetches EXCEPT ![p].status = "settled", ![p].failed = TRUE]
  /\ lastOp' = "fetch-failed"
  /\ UNCHANGED viewVars
  /\ UNCHANGED <<snapshotVars, fetchPromise, lastReturned, now, answer, routerVars>>

(* A plausible slip: the timestamp is set whatever the outcome.            *)
FetchFailStampsTime(p) ==
  /\ Pending(p)
  /\ lastResult' = userAccount
  /\ lastFetched' = now
  /\ fetches' = [fetches EXCEPT ![p].status = "settled", ![p].failed = TRUE]
  /\ fetchPromise' = 0
  /\ lastOp' = "fetch-failed"
  /\ UNCHANGED viewVars
  /\ UNCHANGED <<userAccount, editableIds, deletableIds, previousIds, lastReturned, now,
                 answer, routerVars>>

(* The request of promise p rejects: fetchUserAccount returns null, the    *)
(* IIFE returns the cached account; finally resets fetchPromise.           *)
FetchFail(p) ==
  /\ Pending(p)
  /\ lastResult' = userAccount
  /\ fetches' = [fetches EXCEPT ![p].status = "settled", ![p].failed = TRUE]
  /\ fetchPromise' = 0
  /\ lastOp' = "fetch-failed"
  /\ UNCHANGED viewVars
  /\ UNCHANGED <<snapshotVars, lastReturned, now, answer, routerVars>>

(* A plausible slip: clear() forgets to reset the timestamp.               *)
ClearCallKeepsTimestamp ==
  /\ userAccount' = NullAccount
  /\ editableIds' = {}
  /\ deletableIds' = {}
  /\ lastFetched' = lastFetched
  /\ fetchPromise' = 0
  /\ previousIds' = editableIds \cup deletableIds
  /\ fetches' = [p \in PromiseIds |->
                   IF Pending(p) THEN [fetches[p] EXCEPT !.abandoned = TRUE] ELSE fetches[p]]

(* clear(): wipe the cache and forget the promise; the requests in flight  *)
(* keep running.                                                           *)
ClearCall ==
  /\ userAccount' = NullAccount
  /\ editableIds' = {}
  /\ deletableIds' = {}
  /\ lastFetched' = 0
  /\ fetchPromise' = 0
  /\ previousIds' = editableIds \cup deletableIds
  /\ fetches' = [p \in PromiseIds |->
                   IF Pending(p) THEN [fetches[p] EXCEPT !.abandoned = TRUE] ELSE fetches[p]]

(* clear() called by a view (the log-out button of UserProfileSettings).   *)
Clear ==
  /\ ClearCall
  /\ lastOp' = "clear"
  /\ UNCHANGED viewVars
  /\ UNCHANGED <<lastReturned, lastResult, now, answer, routerVars>>

(* A plausible slip: a stale cache makes the read start a refresh.         *)
CanEditCallRefreshing(ontologyId) ==
  /\ answer' = canEdit(ontologyId)
  /\ IF isStale /\ fetchPromise = 0
       THEN RefreshCall
       ELSE UNCHANGED flightVars
  /\ lastOp' = "can-edit"
  /\ UNCHANGED viewVars
  /\ UNCHANGED <<snapshotVars, lastResult, now, routerVars>>

(* A view calls canEdit(ontologyId) and gets the answer synchronously.     *)
CanEditCall(ontologyId) ==
  /\ answer' = canEdit(ontologyId)
  /\ lastOp' = "can-edit"
  /\ UNCHANGED viewVars
  /\ UNCHANGED <<snapshotVars, flightVars, lastResult, now, routerVars>>

(* A view calls canDelete(ontologyId) and gets the answer synchronously.   *)
CanDeleteCall(ontologyId) ==
  /\ answer' = canDelete(ontologyId)
  /\ lastOp' = "can-delete"
  /\ UNCHANGED viewVars
  /\ UNCHANGED <<snapshotVars, flightVars, lastResult, now, routerVars>>

(* Date.now() advances.                                                    *)
Tick ==
  /\ now + TickMs <= StartNow + MaxTicks * TickMs
  /\ now' = now + TickMs
  /\ lastOp' = "tick"
  /\ UNCHANGED viewVars
  /\ UNCHANGED <<snapshotVars, flightVars, lastResult, answer, routerVars>>

(* ------------------------------- App ----------------------------------- *)
ViewTypes == {"login", "dashboard", "use-ontology", "ontology-details",
              "edit-ontology", "new-ontology"}
EntityViews == {"ontology-details", "edit-ontology"}
NullView == "null"
Users == {"u1"}

(* Fragments (the text after '#') present at startup or entered later.     *)
UrlFragments ==
  { <<>>,
    <<"dashboard">>,
    <<"ontology-details">>,
    <<"ontology-details", "/", "a">>,
    <<"ontology-details", "?", "id=", "a">>,
    <<"b">>,
    <<"dashboard", "/", "a">> }

(* Arguments views pass to onNavigate.                                     *)
NavIds == {<<"a">>}
NavIdArgs == NavIds \cup {UndefinedStr, <<>>}

(* The pieces fragments are made of: view names, separators, the legacy    *)
(* 'id=' key and an opaque token; every fragment of up to MaxFragLen       *)
(* pieces.                                                                 *)
FragmentAtoms == {"ontology-details", "edit-ontology", "dashboard", "/", "?", "id=", "a"}
CodecFragments == UNION {[1..n -> FragmentAtoms] : n \in 0..MaxFragLen}

(* window.location.hash for a fragment: empty, or '#' followed by it.      *)
HashOf(fragment) == IF fragment = <<>> THEN <<>> ELSE <<"#">> \o fragment

(* String.prototype.split('/')                                             *)
RECURSIVE Split(_)
Split(s) ==
  IF \A i \in 1..Len(s) : s[i] # "/"
    THEN <<s>>
    ELSE LET k == CHOOSE i \in 1..Len(s) : s[i] = "/" /\ \A j \in 1..(i - 1) : s[j] # "/"
         IN <<SubSeq(s, 1, k - 1)>> \o Split(SubSeq(s, k + 1, Len(s)))

NoTarget == [view |-> NullView, id |-> NullStr]

(* ['ontology-details', 'edit-ontology'].includes(view)                    *)
IsEntityViewName(part) == Len(part) = 1 /\ part[1] \in EntityViews

(* hashContent.match(/^([^?]+)\?id=(.+)$/) : the groups, or no match.      *)
LegacyMatch(hashContent) ==
  LET qs == {i \in 1..Len(hashContent) : hashContent[i] = "?"}
      k == CHOOSE i \in qs : \A j \in qs : i <= j
  IN IF qs # {} /\ k > 1 /\ Len(hashContent) >= k + 2 /\ hashContent[k + 1] = "id="
       THEN [matched |-> TRUE, view |-> SubSeq(hashContent, 1, k - 1),
             id |-> SubSeq(hashContent, k + 2, Len(hashContent))]
       ELSE [matched |-> FALSE, view |-> <<>>, id |-> <<>>]

(* A plausible slip: no fall-through for a bare token.                     *)
parseHashKnownViewsOnly(hash) ==
  IF hash = <<>> THEN NoTarget
  ELSE
    LET hashContent == Tail(hash)
        parts == Split(hashContent)
        legacyMatch == LegacyMatch(hashContent)
    IN IF Len(parts) = 2 /\ parts[2] # <<>> /\ IsEntityViewName(parts[1])
         THEN [view |-> parts[1][1], id |-> parts[2]]
       ELSE IF Len(parts) = 1 /\ parts[1] \in {<<"dashboard">>, <<"new-ontology">>}
         THEN [view |-> parts[1][1], id |-> NullStr]
       ELSE IF Len(parts) = 1 /\ IsEntityViewName(parts[1])
         THEN [view |-> parts[1][1], id |-> NullStr]
       ELSE IF legacyMatch.matched /\ legacyMatch.id # <<>>
               /\ IsEntityViewName(legacyMatch.view)
         THEN [view |-> legacyMatch.view[1], id |-> legacyMatch.id]
       ELSE NoTarget

parseHash(hash) ==
  IF hash = <<>> THEN NoTarget
  ELSE
    LET hashContent == Tail(hash)
        parts == Split(hashContent)
        legacyMatch == LegacyMatch(hashContent)
    IN IF Len(parts) = 2 /\ parts[2] # <<>> /\ IsEntityViewName(parts[1])
         THEN [view |-> parts[1][1], id |-> parts[2]]
       ELSE IF Len(parts) = 1 /\ parts[1] \in {<<"dashboard">>, <<"new-ontology">>}
         THEN [view |-> parts[1][1], id |-> NullStr]
       ELSE IF Len(parts) = 1 /\ IsEntityViewName(parts[1])
         THEN [view |-> parts[1][1], id |-> NullStr]
       ELSE IF Len(parts) = 1 /\ parts[1] # <<>>
         THEN [view |-> "ontology-details", id |-> parts[1]]
       ELSE IF legacyMatch.matched /\ legacyMatch.id # <<>>
               /\ IsEntityViewName(legacyMatch.view)
         THEN [view |-> legacyMatch.view[1], id |-> legacyMatch.id]
       ELSE NoTarget

(* A plausible slip: the signed-in branch always shows the dashboard.      *)
SignedInViewForcesDashboard(prev, parsed) == "dashboard"

(* setCurrentView((prev) =>                                                *)
(*   prev === 'login' ? (parsedHash.view || 'dashboard') : prev)           *)
SignedInView(prev, parsed) ==
  IF prev = "login"
    THEN (IF parsed.view # NullView THEN parsed.view ELSE "dashboard")
    ELSE prev

(* if (!parsedHash.view) setCurrentView('dashboard')                       *)
DefaultUnlessParsed(prev, parsed) ==
  IF parsed.view = NullView THEN "dashboard" ELSE prev

InitRouterFrom(fragments) ==
  /\ mounted = FALSE
  /\ currentView = "dashboard"
  /\ selectedOntologyId = NullStr
  /\ currentUser = NoUser
  /\ isLoading = TRUE
  /\ locationHash \in {HashOf(f) : f \in fragments}
  /\ hashEventPending = FALSE
  /\ parsedHash = NoTarget
  /\ authUser = NoUser
  /\ loginPending = NoUser
  /\ handlersRun = {}

InitRouter == InitRouterFrom(UrlFragments)

(* The mount effect: parse the fragment, apply it, subscribe the identity  *)
(* callback, then the synchronous already-authenticated check.             *)
Mount ==
  /\ ~mounted
  /\ LET parsed == parseHash(locationHash)
         fromHash == IF parsed.view # NullView THEN parsed.view ELSE currentView
     IN /\ parsedHash' = parsed
        /\ selectedOntologyId' =
             IF ~Falsy(parsed.id) THEN parsed.id ELSE selectedOntologyId
        /\ currentView' = DefaultUnlessParsed(fromHash, parsed)
  /\ IF authUser # NoUser
       THEN /\ currentUser' = authUser
            /\ RefreshCall
       ELSE UNCHANGED <<currentUser, flightVars>>
  /\ isLoading' = FALSE
  /\ mounted' = TRUE
  /\ lastOp' = "mount"
  /\ UNCHANGED viewVars
  /\ UNCHANGED <<locationHash, hashEventPending, authUser, loginPending, handlersRun>>
  /\ UNCHANGED <<snapshotVars, lastResult, now, answer>>

(* The identity provider reports user (a user or none): authService stores *)
(* it and notifies the callback App subscribed at mount, if any.           *)
AuthStateChange(user) ==
  /\ authUser' = user
  /\ IF ~mounted
       THEN /\ lastOp' = "auth-unobserved"
            /\ UNCHANGED <<currentUser, currentView, snapshotVars, flightVars>>
       ELSE /\ currentUser' = user
            /\ IF user # NoUser
                 THEN /\ currentView' = SignedInView(currentView, parsedHash)
                      /\ RefreshCallAs(user)
                      /\ lastOp' = "auth-signed-in"
                      /\ UNCHANGED snapshotVars
                 ELSE /\ currentView' = DefaultUnlessParsed(currentView, parsedHash)
                      /\ ClearCall
                      /\ lastOp' = "auth-signed-out"
                      /\ UNCHANGED lastReturned
  /\ UNCHANGED <<mounted, selectedOntologyId, isLoading, locationHash, hashEventPending,
                 parsedHash, loginPending, handlersRun>>
  /\ UNCHANGED <<lastResult, now, answer, viewVars>>

(* The address bar, back or forward changes the fragment.                  *)
UrlChange(fragment) ==
  /\ mounted
  /\ HashOf(fragment) # locationHash
  /\ locationHash' = HashOf(fragment)
  /\ hashEventPending' = TRUE
  /\ lastOp' = "url-change"
  /\ UNCHANGED viewVars
  /\ UNCHANGED <<mounted, currentView, selectedOntologyId, currentUser, isLoading,
                 parsedHash, authUser, loginPending, handlersRun>>
  /\ UNCHANGED cacheVars

(* A plausible slip: an undecodable fragment falls back to the dashboard.  *)
handleHashChangeResets ==
  /\ ~isLoading
  /\ hashEventPending
  /\ hashEventPending' = FALSE
  /\ LET parsed == parseHash(locationHash) IN
       /\ currentView' = IF parsed.view # NullView THEN parsed.view ELSE "dashboard"
       /\ selectedOntologyId' = parsed.id
  /\ handlersRun' = handlersRun \cup {"nav"}
  /\ lastOp' = "hashchange"
  /\ UNCHANGED viewVars
  /\ UNCHANGED <<mounted, currentUser, isLoading, locationHash, parsedHash, authUser,
                 loginPending>>
  /\ UNCHANGED cacheVars

handleHashChange ==
  /\ ~isLoading
  /\ hashEventPending
  /\ hashEventPending' = FALSE
  /\ LET parsed == parseHash(locationHash) IN
       /\ currentView' = IF parsed.view # NullView THEN parsed.view ELSE currentView
       /\ selectedOntologyId' = IF parsed.id # NullStr THEN parsed.id ELSE selectedOntologyId
  /\ handlersRun' = handlersRun \cup {"nav"}
  /\ lastOp' = "hashchange"
  /\ UNCHANGED viewVars
  /\ UNCHANGED <<mounted, currentUser, isLoading, locationHash, parsedHash, authUser,
                 loginPending>>
  /\ UNCHANGED cacheVars

(* Assigning window.location.hash queues a hashchange event iff the        *)
(* fragment changes.                                                       *)
handleViewChange(view, ontologyId) ==
  /\ ~isLoading
  /\ currentView' = view
  /\ LET newHash == IF ~Falsy(ontologyId)
                      THEN HashOf(<<"ontology-details", "/">> \o ontologyId)
                      ELSE HashOf(<<view>>)
     IN /\ locationHash' = newHash
        /\ hashEventPending' = (hashEventPending \/ newHash # locationHash)
  /\ selectedOntologyId' =
       IF ~Falsy(ontologyId) THEN ontologyId
       ELSE IF view \notin EntityViews THEN NullStr
       ELSE selectedOntologyId
  /\ handlersRun' = handlersRun \cup {"nav"}
  /\ lastOp' = "view-change"
  /\ UNCHANGED viewVars
  /\ UNCHANGED <<mounted, currentUser, isLoading, parsedHash, authUser, loginPending>>
  /\ UNCHANGED cacheVars

(* LoginView in the login modal (shown while currentUser is null) submits  *)
(* and awaits authService.signIn.                                          *)
LoginSubmit(user) ==
  /\ ~isLoading
  /\ currentUser = NoUser
  /\ loginPending = NoUser
  /\ loginPending' = user
  /\ lastOp' = "login-submit"
  /\ UNCHANGED viewVars
  /\ UNCHANGED <<mounted, currentView, selectedOntologyId, currentUser, isLoading,
                 locationHash, hashEventPending, parsedHash, authUser, handlersRun>>
  /\ UNCHANGED cacheVars

(* signIn resolved: LoginView calls onLogin(user), that is handleLogin.    *)
handleLogin ==
  /\ loginPending # NoUser
  /\ currentUser' = loginPending
  /\ currentView' = "dashboard"
  /\ loginPending' = NoUser
  /\ handlersRun' = handlersRun \cup {"login"}
  /\ lastOp' = "login"
  /\ UNCHANGED viewVars
  /\ UNCHANGED <<mounted, selectedOntologyId, isLoading, locationHash, hashEventPending,
                 parsedHash, authUser>>
  /\ UNCHANGED cacheVars

(* handleLogout after authService.signOut() resolved.                      *)
handleLogout ==
  /\ ~isLoading
  /\ ClearCall
  /\ currentUser' = NoUser
  /\ currentView' = "login"
  /\ selectedOntologyId' = NullStr
  /\ handlersRun' = handlersRun \cup {"nav"}
  /\ lastOp' = "logout"
  /\ UNCHANGED viewVars
  /\ UNCHANGED <<mounted, isLoading, locationHash, hashEventPending, parsedHash, authUser,
                 loginPending>>
  /\ UNCHANGED <<lastReturned, lastResult, now, answer>>

(* ---------------------- OntologyDetailsView --------------------------- *)
MaxChecks == 3       \* /can_edit_ontology requests in one behaviour
MaxLoads == 2        \* searchOntologies calls in one behaviour
CheckIds == 1..MaxChecks
LoadIds == 1..MaxLoads
DetailIds == {<<"a">>, <<"b">>}
NoCheck == [status |-> "none", id |-> NullStr]
NoOntology == [isNull |-> TRUE, id |-> NullStr, uuid |-> NullStr]

ChecksMade == Cardinality({c \in CheckIds : checks[c].status # "none"})
LoadsMade == Cardinality({l \in LoadIds : loads[l].status # "none"})

(* checkPermission for the record loaded (loaded) under the prop id: no    *)
(* request without an id, else GET /can_edit_ontology/<uuid or id>.        *)
checkPermission(id, loaded) ==
  IF Falsy(id)
    THEN UNCHANGED checks
    ELSE /\ ChecksMade < MaxChecks
         /\ LET ontologyUuid == IF ~loaded.isNull /\ ~Falsy(loaded.uuid)
                                  THEN loaded.uuid ELSE id
            IN checks' = [checks EXCEPT ![ChecksMade + 1] =
                                          [status |-> "pending", id |-> ontologyUuid]]

(* fetchOntology: no call without an id, else searchOntologies().          *)
fetchOntology(id) ==
  IF Falsy(id)
    THEN UNCHANGED loads
    ELSE /\ LoadsMade < MaxLoads
         /\ loads' = [loads EXCEPT ![LoadsMade + 1] = [status |-> "pending", id |-> id]]

(* The view is mounted with, or re-rendered with a new, ontologyId: the    *)
(* effects depending on it run.                                            *)
DetailsRender(id) ==
  /\ ~rendered \/ id # propOntologyId
  /\ rendered' = TRUE
  /\ propOntologyId' = id
  /\ fetchOntology(id)
  /\ checkPermission(id, ontology)
  /\ lastOp' = "details-render"
  /\ UNCHANGED <<ontology, canEditView, completed, windowVars, cacheVars, routerVars>>

(* searchOntologies of call l resolves: the record whose id is the id the  *)
(* effect ran with is stored (found, with or without a uuid), or an error  *)
(* is shown; a new ontology makes checkPermission run again.               *)
LoadComplete(l, found, uuid) ==
  /\ loads[l].status = "pending"
  /\ loads' = [loads EXCEPT ![l].status = "done"]
  /\ IF found
       THEN /\ ontology' = [isNull |-> FALSE, id |-> loads[l].id, uuid |-> uuid]
            /\ checkPermission(propOntologyId, ontology')
       ELSE UNCHANGED <<ontology, checks>>
  /\ lastOp' = "details-loaded"
  /\ UNCHANGED <<rendered, propOntologyId, canEditView, completed, windowVars, cacheVars,
                 routerVars>>

(* The request of check c is answered (granted: success true; denied) or   *)
(* fails: setCanEdit(!!resp?.success), or setCanEdit(false).               *)
CheckComplete(c, outcome) ==
  /\ checks[c].status = "pending"
  /\ checks' = [checks EXCEPT ![c].status = "done"]
  /\ canEditView' = (outcome = "granted")
  /\ completed' = [completed EXCEPT ![checks[c].id] = outcome]
  /\ lastOp' = "details-checked"
  /\ UNCHANGED <<rendered, propOntologyId, ontology, loads, windowVars, cacheVars,
                 routerVars>>

(* ------------------------- named windows ------------------------------- *)
(* The cards DashboardView lists: searchOntologies normalises a record     *)
(* without id, uuid or _id to the id ''.                                   *)
Ontologies ==
  { [name |-> "r1", id |-> <<"a">>],
    [name |-> "r2", id |-> <<"b">>],
    [name |-> "r3", id |-> <<"a", "b">>],
    [name |-> "r4", id |-> <<"b", "a">>],
    [name |-> "r5", id |-> <<>>],
    [name |-> "r6", id |-> <<>>] }

NoWindow == [name |-> <<>>, url |-> <<>>, record |-> "none"]

(* A plausible slip: one window name for every card.                       *)
WindowKeyShared(id) == <<"ontology">>

(* const target = `ontology-${ontology.id}`                                *)
WindowKey(id) == <<"ontology-">> \o id

(* const url = `#ontology-details?id=${ontology.id}`                       *)
CardUrl(id) == <<"#", "ontology-details", "?", "id=">> \o id

(* `${window.location.pathname}#dashboard`                                 *)
DashboardUrl == <<"pathname", "#", "dashboard">>

(* window.open(url, target): the window of that name is navigated to url,  *)
(* or a new window of that name is opened on it.                           *)
WindowOpen(url, target) ==
  windows' = {w \in windows : w.name # target} \cup {[name |-> target, url |-> url]}

InitViews ==
  /\ windows = {}
  /\ lastOpened = NoWindow
  /\ rendered = FALSE
  /\ propOntologyId = NullStr
  /\ ontology = NoOntology
  /\ canEditView = FALSE
  /\ checks = [c \in CheckIds |-> NoCheck]
  /\ loads = [l \in LoadIds |-> NoCheck]
  /\ completed = [id \in DetailIds |-> "none"]

(* A card of DashboardView, or its View button, is clicked.                *)
CardClick(o) ==
  /\ WindowOpen(CardUrl(o.id), WindowKey(o.id))
  /\ lastOpened' = [name |-> WindowKey(o.id), url |-> CardUrl(o.id), record |-> o.name]
  /\ lastOp' = "card-click"
  /\ UNCHANGED <<cacheVars, routerVars, detailsVars>>

(* The Dashboard item of the navigation bar is clicked.                    *)
DashboardNavClick ==
  /\ WindowOpen(DashboardUrl, <<"dashboard">>)
  /\ lastOpened' = [name |-> <<"dashboard">>, url |-> DashboardUrl, record |-> "none"]
  /\ lastOp' = "dashboard-click"
  /\ UNCHANGED <<cacheVars, routerVars, detailsVars>>

(* --------------------------- specifications ---------------------------- *)
Init == InitCache /\ InitRouter /\ InitViews

(* The cache alone: App is not mounted and the fragment is empty.          *)
InitCacheOnly == Init /\ locationHash = <<>>

(* A window opened on any fragment.                                        *)
InitCodec == InitCache /\ InitRouterFrom(CodecFragments) /\ InitViews

NextCache ==
  \/ Refresh
  \/ \E p \in PromiseIds, response \in Responses : FetchSucceed(p, response)
  \/ \E p \in PromiseIds : FetchFail(p)
  \/ Clear
  \/ Tick

(* The cache with every request settling, the clock standing still.       *)
NextSettling ==
  \/ Refresh
  \/ \E p \in PromiseIds, response \in EditOnlyResponses : FetchSucceed(p, response)
  \/ \E p \in PromiseIds : FetchFail(p)
  \/ Clear

(* A request issued is eventually answered or fails.                       *)
RequestsSettle ==
  \A p \in PromiseIds :
    WF_vars(FetchFail(p) \/ \E response \in EditOnlyResponses : FetchSucceed(p, response))

(* Users signing in and out of a mounted App, the identity provider        *)
(* reporting a sign-out between two users, with the requests completing    *)
(* at any time.                                                            *)
NextIdentity ==
  \/ Mount
  \/ \E user \in Identities \cup {NoUser} :
       (authUser = NoUser \/ user = NoUser) /\ AuthStateChange(user)
  \/ \E p \in PromiseIds :
       \E response \in AuthorityResponses(fetches[p].user) : FetchSucceed(p, response)
  \/ \E p \in PromiseIds : FetchFail(p)
  \/ \E ontologyId \in ServerIds : CanEditCall(ontologyId)

(* One mounted OntologyDetailsView whose ontologyId prop changes.          *)
NextDetails ==
  \/ \E id \in DetailIds \cup {NullStr} : DetailsRender(id)
  \/ \E l \in LoadIds, found \in BOOLEAN :
       \E uuid \in {loads[l].id, NullStr} : LoadComplete(l, found, uuid)
  \/ \E c \in CheckIds, outcome \in {"granted", "denied", "failed"} :
       CheckComplete(c, outcome)

NextReads ==
  \/ Refresh
  \/ \E p \in PromiseIds, response \in BlankResponses : FetchSucceed(p, response)
  \/ \E p \in PromiseIds : FetchFail(p)
  \/ Clear
  \/ \E ontologyId \in QueryIds : CanEditCall(ontologyId)
  \/ \E ontologyId \in QueryIds : CanDeleteCall(ontologyId)

NextRouter ==
  \/ Mount
  \/ \E user \in Users \cup {NoUser} : AuthStateChange(user)
  \/ \E fragment \in UrlFragments : UrlChange(fragment)
  \/ handleHashChange
  \/ \E view \in ViewTypes, ontologyId \in NavIdArgs : handleViewChange(view, ontologyId)
  \/ \E user \in Users : LoginSubmit(user)
  \/ handleLogin
  \/ handleLogout

(* Mounting decodes the fragment the window was opened with.               *)
NextCodec == Mount

NextWindows ==
  \/ \E o \in Ontologies : CardClick(o)
  \/ DashboardNavClick

(* The permission cache under arbitrary callers.                           *)
SpecCache == InitCacheOnly /\ [][NextCache]_vars

(* The cache read by views, with an authority service that may list the    *)
(* empty string among the ids.                                             *)
SpecReads == InitCacheOnly /\ [][NextReads]_vars

(* The router, with the cache calls its handlers make.                     *)
SpecRouter == Init /\ [][NextRouter]_vars

(* The cache when every /get_user request eventually settles.             *)
SpecSettling == InitCacheOnly /\ [][NextSettling]_vars /\ RequestsSettle

(* The cache across sign-ins of different users.                           *)
SpecIdentity == InitCacheOnly /\ [][NextIdentity]_vars

(* OntologyDetailsView and its permission checks.                          *)
SpecDetails == InitCacheOnly /\ [][NextDetails]_vars

(* The windows opened from the dashboard and the navigation bar.           *)
SpecWindows == InitCacheOnly /\ [][NextWindows]_vars

(* The fragment decoder applied to every fragment of bounded length.       *)
SpecCodec == InitCodec /\ [][NextCodec]_vars

(* ------------------------------ claims --------------------------------- *)
FreshPending == {p \in PromiseIds : Pending(p) /\ ~fetches[p].abandoned}

(* C1: a refresh() call made while the fetch started by an earlier         *)
(* refresh() call is still pending, with no clear() since that earlier     *)
(* call, issues no /get_user request and is handed the promise of that     *)
(* fetch, so both callers settle with the same result.                     *)
C1_SecondCallJoins ==
  [][(lastOp' \in {"refresh-joined", "refresh-issued"} /\ FreshPending # {})
       => (Requests' = Requests /\ lastReturned' \in FreshPending)]_vars

(* C2: in every reachable state at most one /get_user fetch is in flight.  *)
C2_AtMostOneInFlight == Cardinality(PendingFetches) <= 1

(* C3: a failed refresh that follows a successful one leaves the account   *)
(* and every canEdit / canDelete answer as they were.                      *)
C3_FailureKeepsSnapshot ==
  [][(lastOp' = "fetch-failed" /\ ~userAccount.isNull)
       => /\ getUserAccount' = getUserAccount
          /\ \A id \in QueryIds :
               /\ canEdit(id)' = canEdit(id)
               /\ canDelete(id)' = canDelete(id)]_vars

C3_Witness ==
  /\ lastOp = "fetch-failed"
  /\ ~userAccount.isNull
  /\ canEdit(<<"a">>)
  /\ canDelete(<<"b">>)

(* C4: when a fetch that clear() abandoned completes while the snapshot is *)
(* still empty, the snapshot stays empty: the account stays null and       *)
(* canEdit / canDelete stay false for every id.                            *)
C4_AbandonedFetchDoesNotRepopulate ==
  [][(userAccount.isNull
      /\ \E p \in PromiseIds :
           Pending(p) /\ fetches[p].abandoned /\ fetches'[p].status = "settled")
       => /\ userAccount'.isNull
          /\ \A id \in QueryIds : ~canEdit(id)' /\ ~canDelete(id)']_vars

(* C5: when the startup fragment decoded to a target, then as long as only *)
(* the mount effect and identity callbacks have run, currentView and       *)
(* selectedOntologyId are that target, whatever the identity and whenever  *)
(* it is delivered.                                                        *)
C5_DeepLinkSurvivesIdentity ==
  (mounted /\ handlersRun = {} /\ parsedHash.view # NullView)
    => (currentView = parsedHash.view /\ selectedOntologyId = parsedHash.id)

C5_Witness ==
  /\ mounted
  /\ handlersRun = {}
  /\ lastOp = "auth-signed-in"
  /\ parsedHash = [view |-> "ontology-details", id |-> <<"a">>]
  /\ parsedHash = parseHash(locationHash)

(* C6: every step that assigns the default view on sign-in (the signed-in  *)
(* identity callback, the already-authenticated check at mount, and        *)
(* handleLogin) leaves currentView at the deep-linked view when the        *)
(* startup fragment decoded to a target.                                   *)
C6_SignInKeepsDeepLink ==
  [][(/\ parsedHash'.view # NullView
      /\ \/ lastOp' = "mount" /\ authUser # NoUser
         \/ lastOp' \in {"auth-signed-in", "login"} /\ currentView = parsedHash.view)
       => currentView' = parsedHash'.view]_vars

(* C7: selectedOntologyId is non-null exactly when currentView is an       *)
(* entity-scoped view.                                                     *)
C7_SelectedIffEntityView ==
  (selectedOntologyId # NullStr) <=> (currentView \in EntityViews)

(* C8: after an explicit navigation (handleViewChange, hashchange,         *)
(* handleLogout) no identity callback moves currentView back to the view   *)
(* of the startup fragment.                                                *)
C8_StartupTargetNotReapplied ==
  [][(/\ "nav" \in handlersRun
      /\ lastOp' \in {"auth-signed-in", "auth-signed-out"}
      /\ parsedHash.view # NullView
      /\ currentView # parsedHash.view)
       => currentView' # parsedHash.view]_vars

(* C9: after a successful refresh the editable and deletable sets are      *)
(* exactly the lists of that response: an id that was editable or          *)
(* deletable before and is absent from the response is neither any more.   *)
C9_SnapshotReplaced ==
  lastOp = "fetch-ok"
    => /\ editableIds = lastResult.can_edit_ontologies
       /\ deletableIds = lastResult.can_delete_ontologies
       /\ \A id \in ServerIds :
            /\ canEdit(id) <=> id \in lastResult.can_edit_ontologies
            /\ canDelete(id) <=> id \in lastResult.can_delete_ontologies

C9_Witness ==
  /\ lastOp = "fetch-ok"
  /\ <<"a">> \in previousIds
  /\ ~canEdit(<<"a">>)
  /\ ~canDelete(<<"a">>)
  /\ canEdit(<<"b">>)

(* C10: immediately after clear() the account is null, canEdit and         *)
(* canDelete are false for every id, and the cache is stale.               *)
C10_ClearWipes ==
  lastOp = "clear"
    => /\ getUserAccount.isNull
       /\ \A id \in QueryIds : ~canEdit(id) /\ ~canDelete(id)
       /\ isStale

C10_Witness ==
  /\ lastOp = "clear"
  /\ previousIds # {}
  /\ now = StartNow

(* C11: a canEdit or canDelete call issues no /get_user request, starts   *)
(* no refresh and leaves the account, both id sets, the timestamp and the  *)
(* in-flight marker unchanged; it answers at once from the committed       *)
(* snapshot, also while a refresh is in flight.                            *)
C11_ReadsArePure ==
  [][(lastOp' \in {"can-edit", "can-delete"})
       => /\ Requests' = Requests
          /\ UNCHANGED <<userAccount, editableIds, deletableIds, lastFetched,
                         fetchPromise, fetches>>
          /\ answer' => (IF lastOp' = "can-edit" THEN editableIds ELSE deletableIds) # {}]_vars

C11_Witness ==
  /\ lastOp = "can-edit"
  /\ answer
  /\ fetchPromise # 0

(* An id that is empty or consists only of whitespace.                     *)
Blank(id) == id # NullStr /\ id # UndefinedStr /\ Trim(id) = <<>>

(* C12: canEdit and canDelete are false for an id that is empty or only    *)
(* whitespace, and for every id while no snapshot exists, whatever lists   *)
(* the authority service returned.                                         *)
C12_BlankOrNoSnapshotDenied ==
  \A id \in QueryIds :
    (Blank(id) \/ userAccount.isNull) => (~canEdit(id) /\ ~canDelete(id))

(* C13: the cache is stale while no refresh has succeeded, fresh right     *)
(* after a successful refresh, fresh while no more than five minutes have  *)
(* passed since, and stale once more than five minutes have passed.        *)
C13_StaleTimeline ==
  /\ userAccount.isNull => isStale
  /\ lastOp = "fetch-ok" => ~isStale
  /\ ~userAccount.isNull => (isStale <=> now - lastFetched > 300000)

C13_Witness ==
  /\ lastOp = "tick"
  /\ ~userAccount.isNull
  /\ now - lastFetched > 300000
  /\ isStale

(* C14: refresh() never rejects; a failing fetch with no snapshot resolves *)
(* to null and canEdit stays false for every id, however many fail in a    *)
(* row.                                                                    *)
C14_RefreshNeverRejects ==
  /\ \A p \in PromiseIds : fetches[p].status # "rejected"
  /\ (lastOp = "fetch-failed" /\ userAccount.isNull)
       => (lastResult.isNull /\ \A id \in QueryIds : ~canEdit(id))

C14_Witness ==
  /\ lastOp = "fetch-failed"
  /\ fetches[1].status = "settled" /\ fetches[1].failed
  /\ fetches[2].status = "settled" /\ fetches[2].failed
  /\ \A p \in PromiseIds : fetches[p].status = "settled" => fetches[p].failed
  /\ previousIds = {}
  /\ lastResult.isNull

(* C15: for an entity-scoped view v and a non-empty id x, the legacy       *)
(* fragment 'v?id=x' decodes to the same target as 'v/x'; this is the      *)
(* fragment DashboardView opens a card's window with.                      *)
C15_LegacyDecodesAsPath ==
  \A v \in EntityViews, x \in NavIds :
    (mounted /\ locationHash = <<"#", v, "?", "id=">> \o x)
      => parsedHash = parseHash(<<"#", v, "/">> \o x)

(* C16: the fragment handleViewChange writes decodes to the view and id   *)
(* it set: the hashchange event processed right after it leaves           *)
(* currentView and selectedOntologyId as they were.                       *)
C16_HashChangeAfterViewChangeIsNoOp ==
  [][(lastOp = "view-change" /\ lastOp' = "hashchange")
       => UNCHANGED <<currentView, selectedOntologyId>>]_vars

(* C17: for view in {'ontology-details', 'edit-ontology'} and a non-empty  *)
(* id, parseHash applied to the fragment handleViewChange(view, id) wrote  *)
(* returns exactly (view, id).                                             *)
C17_EntityTargetRoundTrip ==
  [][\A view \in EntityViews, ontologyId \in NavIds :
       handleViewChange(view, ontologyId)
         => parseHash(locationHash') = [view |-> view, id |-> ontologyId]]_vars

(* C18: a hashchange whose fragment decodes to (view, id) leaves           *)
(* currentView = view and selectedOntologyId = id, null included.          *)
C18_HashChangeOverwritesBoth ==
  [][(lastOp' = "hashchange" /\ parseHash(locationHash).view # NullView)
       => /\ currentView' = parseHash(locationHash).view
          /\ selectedOntologyId' = parseHash(locationHash).id]_vars

(* The fragments the codec does not support: the empty one, two segments  *)
(* whose first is not an entity-scoped view or whose id is empty, the      *)
(* '?id=' form with a view that is not entity-scoped, three or more        *)
(* segments. Fragments mixing '/' and '?' are left out.                    *)
UnsupportedFragment(hashContent) ==
  LET parts == Split(hashContent)
      legacyMatch == LegacyMatch(hashContent)
      plain == \A i \in 1..Len(hashContent) : hashContent[i] # "?"
  IN \/ hashContent = <<>>
     \/ plain /\ Len(parts) = 2 /\ (~IsEntityViewName(parts[1]) \/ parts[2] = <<>>)
     \/ Len(parts) = 1 /\ legacyMatch.matched /\ ~IsEntityViewName(legacyMatch.view)
     \/ plain /\ Len(parts) >= 3

(* C19: parseHash returns no target (view null, id null) for every         *)
(* fragment outside the supported forms.                                   *)
C19_UnsupportedHasNoTarget ==
  (mounted /\ UnsupportedFragment(IF locationHash = <<>> THEN <<>> ELSE Tail(locationHash)))
    => parsedHash = NoTarget

(* C20: a hashchange whose fragment does not decode leaves currentView and *)
(* selectedOntologyId unchanged, and nothing else of the application state *)
(* changes either.                                                         *)
C20_UndecodableHashChangeIgnored ==
  [][(lastOp' = "hashchange" /\ parseHash(locationHash) = NoTarget)
       => UNCHANGED <<currentView, selectedOntologyId, currentUser, isLoading, mounted,
                      locationHash, cacheVars>>]_vars

C20_Witness ==
  /\ lastOp = "hashchange"
  /\ locationHash = <<"#", "dashboard", "/", "a">>
  /\ parseHash(locationHash) = NoTarget
  /\ currentView = "ontology-details"
  /\ selectedOntologyId = <<"a">>

(* A non-empty token without '/' or '?' that is not a view name.           *)
BareToken(hashContent) ==
  /\ hashContent # <<>>
  /\ \A i \in 1..Len(hashContent) : hashContent[i] \notin {"/", "?"}
  /\ ~(Len(hashContent) = 1 /\ hashContent[1] \in ViewTypes)

(* C21: a fragment that is a bare token decodes to the details view with   *)
(* the token as id.                                                        *)
C21_BareTokenIsEntityId ==
  (mounted /\ locationHash # <<>> /\ BareToken(Tail(locationHash)))
    => parsedHash = [view |-> "ontology-details", id |-> Tail(locationHash)]

C21_Witness ==
  /\ mounted
  /\ locationHash = <<"#", "a">>
  /\ parsedHash = [view |-> "ontology-details", id |-> <<"a">>]

(* C22: an identity callback leaves currentView at the view of the target  *)
(* decoded at startup if there is one, otherwise at 'dashboard' when       *)
(* signed in and at 'login' when signed out.                               *)
C22_IdentityCallbackRecomputesView ==
  [][(lastOp' \in {"auth-signed-in", "auth-signed-out"})
       => currentView' = IF parsedHash.view # NullView THEN parsedHash.view
                         ELSE IF lastOp' = "auth-signed-in" THEN "dashboard"
                         ELSE "login"]_vars

(* C23: a click opens or navigates only a window that shows the same      *)
(* target: every window showing another record, or the dashboard, is left  *)
(* as it is, so distinct non-empty ids and the dashboard have distinct     *)
(* window names.                                                           *)
C23_DistinctTargetsDistinctWindows ==
  [][/\ \A o \in Ontologies :
          (o.id # <<>> /\ CardClick(o))
            => \A w \in windows : w.url # CardUrl(o.id) => w \in windows'
     /\ DashboardNavClick => \A w \in windows : w.url # DashboardUrl => w \in windows']_vars

C23_Witness ==
  /\ lastOp = "card-click"
  /\ lastOpened.name = WindowKey(<<"b">>)
  /\ \E w \in windows : w.url = CardUrl(<<"a">>)
  /\ \E w \in windows : w.url = CardUrl(<<"a", "b">>)
  /\ \E w \in windows : w.url = DashboardUrl

(* C24: window.open is never called with a name derived from an empty id.  *)
C24_EmptyIdOpensNoWindow ==
  \A w \in windows \cup {lastOpened} : w.name # WindowKey(<<>>)

(* C25: the caller of refresh() can tell a failed fetch from its result:   *)
(* the promise of a failed fetch rejects or resolves to null, which no     *)
(* successful fetch does, also when an earlier snapshot is retained.       *)
C25_FailureReportedToCaller ==
  \A p \in PromiseIds :
    (lastOp = "fetch-failed" /\ fetches[p].failed)
      => (fetches[p].status = "rejected" \/ lastResult.isNull)

(* C30: a failed refresh leaves the fetch timestamp as it was, and isStale *)
(* has the same value after it as before it.                               *)
C30_FailureKeepsTimestamp ==
  [][(lastOp' = "fetch-failed")
       => /\ lastFetched' = lastFetched
          /\ isStale' = isStale]_vars

C30_Witness ==
  /\ lastOp = "fetch-failed"
  /\ ~userAccount.isNull
  /\ lastFetched # 0
  /\ isStale

(* C29: if every request settles, the promise of every refresh() settles; *)
(* when no fetch is outstanding the in-flight marker is empty, and a       *)
(* refresh() called then issues a new request.                             *)
C29_RefreshSettlesAndMarkerEmpties ==
  /\ \A p \in PromiseIds : Pending(p) ~> ~Pending(p)
  /\ [](PendingFetches = {} => fetchPromise = 0)
  /\ [][(PendingFetches = {} /\ lastOp' \in {"refresh-joined", "refresh-issued"})
          => (lastOp' = "refresh-issued" /\ Requests' = Requests + 1)]_vars

C29_Witness ==
  /\ lastOp = "refresh-issued"
  /\ PendingFetches = {fetchPromise}
  /\ \E p \in PromiseIds : fetches[p].status = "settled" /\ fetches[p].failed
  /\ \E p \in PromiseIds : fetches[p].status = "settled" /\ fetches[p].abandoned

(* C27: while a user is signed in, the snapshot that getUserAccount,       *)
(* canEdit and canDelete answer from was fetched with that user's token.   *)
C27_SnapshotBelongsToSignedInUser ==
  (mounted /\ currentUser # NoUser /\ ~userAccount.isNull)
    => userAccount.email = currentUser

(* C28: whenever the details view's canEdit is true, the check completed   *)
(* last for the ontologyId it displays granted edit.                       *)
C28_CanEditOnlyForCurrentEntity ==
  (rendered /\ canEditView)
    => (propOntologyId \in DetailIds /\ completed[propOntologyId] = "granted")

====
